---- MODULE Spec2Model ----
(***************************************************************************)
(* State-machine model of the checkmate flight game: the surface animation *)
(* sequencer (state/ingame/animation.rs), the camera follow link           *)
(* (camera.rs, follow.rs) and the pan-orbit zoom input (camera/panorbit.rs)*)
(* Time and lengths are integers: one unit of time is half a second, one   *)
(* unit of length is 0.01.                                                 *)
(***************************************************************************)
EXTENDS Integers, Sequences, FiniteSets, TLC

VARIABLES
    keys,       \* ButtonInput<KeyCode>: the set of keys held in the current frame
    data,       \* Local<AnimationData> of `control`: surface -> State
    players,    \* AnimationPlayer components: player -> clip -> ActiveAnimation
    phase,      \* position in the frame: "control" (Update) or "advance" (PostUpdate)
    hold,       \* TRUE once the keyboard state is held constant
    scene_order,\* the AnimationPlayer entities besides the dedicated four, in query order
    graph_loaded,\* Assets<AnimationGraph> holds the graph of Animations
    gear,       \* landing gear: Local<bool> reverse, the players of the hangar scene
    config,        \* Config: camera.presets and game.state
    app_state,     \* State<AppState>
    next_state,    \* NextState<AppState>: "Unchanged" or the pending state
    camera_params, \* AppCameraParams: position, look_at.target, follower
    camera,        \* the camera entity: id, PanOrbitCamera, PanOrbitCameraTarget, Follower
    aircraft,      \* the aircraft entity: id, Transform, PreviousTransform
    thrust,        \* the Thrust of the aircraft: current, target, change_speed
    time_delta,    \* Time::delta_secs of the last tick of update_thrust
    rotation_speed, \* Movement::rotation_speed of the aircraft
    next_entity,   \* the id the next spawned entity gets
    cameras,       \* the ids of the live camera entities
    app_camera_entity, \* AppCameraEntity.entity_id
    sys,           \* the system of the frame that runs next
    frame,         \* history of the running frame (not program state)
    used,          \* how many pans, preset recalls and scene changes have been fed in
    pan_orbit,     \* the camera of the input system: radius, upside_down, rotation
    mouse,         \* the mouse buttons and events of the last frame
    query,         \* the cameras matched by the query of update_input
    readers        \* the events of the last frame the event readers have not read

animVars == <<keys, data, players, phase, hold, scene_order, graph_loaded, gear>>

camVars == <<config, app_state, next_state, camera_params, camera, aircraft,
             thrust, time_delta, rotation_speed,
             next_entity, cameras, app_camera_entity, sys, frame, used>>

inputVars == <<pan_orbit, mouse, query, readers>>

vars == <<animVars, camVars, inputVars>>

----------------------------------------------------------------------------
(* Bounds of the model *)

\* duration of every animation clip, in time units (4 units = 2.0 s)
ClipDuration == 4

\* the frame times (Time::delta) a frame may take, in time units
Deltas == {1, 2}

----------------------------------------------------------------------------
(* Direction, State, AnimationData *)

Direction == {"SideA", "SideB", "Origin"}

Surfaces == {"left_elevon", "right_elevon", "left_ruddervator", "right_ruddervator", "pitch"}

State_new(current, next) == [current |-> current, next |-> next]

need_update(state) == state.current # state.next

to_next(state) == [current |-> state.next, next |-> state.next]

AnimationData_default == [s \in Surfaces |-> State_new("Origin", "Origin")]

----------------------------------------------------------------------------
(* The engine's AnimationPlayer, as far as `control` uses it.  A player    *)
(* holds at most one ActiveAnimation per clip; each surface player is only *)
(* ever commanded with the two clips of its surface, named "A" and "B".    *)

Clips == {"A", "B"}

Opposite(clip) == IF clip = "A" THEN "B" ELSE "A"

\* a clip that is not in the player's active_animations map
NotPlaying == [active |-> FALSE, speed |-> 1, seek_time |-> 0, completions |-> 0]

\* ActiveAnimation::default(): what `play` inserts for a clip that is not active
ActiveAnimation_default == [active |-> TRUE, speed |-> 1, seek_time |-> 0, completions |-> 0]

AnimationPlayer_default == [c \in Clips |-> NotPlaying]

is_finished(anim) == anim.completions >= 1

is_playback_reversed(anim) == anim.speed < 0

is_playing_animation(player, clip) == player[clip].active

all_finished(player) == \A c \in Clips : player[c].active => is_finished(player[c])

stop_all(player) == AnimationPlayer_default

\* player.play(clip): the entry of the clip, inserted with the default if absent
play(player, clip) == IF player[clip].active THEN player[clip] ELSE ActiveAnimation_default

\* ActiveAnimation::update(delta, clip_duration)
ActiveAnimation_update(anim, delta) ==
    IF is_finished(anim) THEN anim
    ELSE LET s == anim.seek_time + delta * anim.speed
             over_time == anim.speed > 0 /\ s >= ClipDuration
             under_time == anim.speed < 0 /\ s < 0
         IN IF over_time \/ under_time
            THEN [anim EXCEPT !.seek_time = s, !.completions = 1]
            ELSE [anim EXCEPT !.seek_time =
                     IF s >= ClipDuration THEN s % ClipDuration
                     ELSE IF s < 0 THEN s + ClipDuration ELSE s]

----------------------------------------------------------------------------
(* switch_rotate_animation *)

\* the arms (Origin, SideX): play the clip forward
EnterSide(player, clip, state) ==
    LET animation == play(player, clip)
        forward == IF is_playback_reversed(animation)
                   THEN [animation EXCEPT !.speed = -1 * animation.speed]
                   ELSE animation
    IN [some |-> TRUE, state |-> to_next(state),
        player |-> [player EXCEPT ![clip] = forward]]

\* LeaveSide seeking to the mirrored position duration - t instead of t + duration
LeaveSide_mirrored(player, clip, state) ==
    LET animation == play(player, clip)
        reversed == IF ~is_playback_reversed(animation)
                    THEN [animation EXCEPT !.speed = -1 * animation.speed,
                                           !.seek_time = ClipDuration - animation.seek_time]
                    ELSE animation
    IN [some |-> TRUE, state |-> State_new("Origin", state.next),
        player |-> [player EXCEPT ![clip] = reversed]]

\* LeaveSide that forgets to flip the playback speed
LeaveSide_forward(player, clip, state) ==
    [some |-> TRUE, state |-> State_new("Origin", state.next),
     player |-> [player EXCEPT ![clip] = play(player, clip)]]

\* the arms (SideX, Origin | SideY): put the clip of SideX into reverse
LeaveSide(player, clip, state) ==
    LET animation == play(player, clip)
        reversed == IF ~is_playback_reversed(animation)
                    THEN [animation EXCEPT !.speed = -1 * animation.speed,
                                           !.seek_time = animation.seek_time + ClipDuration]
                    ELSE animation
    IN [some |-> TRUE, state |-> State_new("Origin", state.next),
        player |-> [player EXCEPT ![clip] = reversed]]

\* switch_rotate_animation without the `if !player.is_playing_animation(..)` guards
switch_rotate_animation_unguarded(player, state) ==
    CASE state.current = "Origin" /\ state.next = "SideA" -> EnterSide(player, "A", state)
      [] state.current = "Origin" /\ state.next = "SideB" -> EnterSide(player, "B", state)
      [] state.current = "SideA" /\ state.next \in {"Origin", "SideB"}
            -> LeaveSide(player, "A", state)
      [] state.current = "SideB" /\ state.next \in {"Origin", "SideA"}
            -> LeaveSide(player, "B", state)
      [] OTHER -> [some |-> FALSE, state |-> state, player |-> player]

\* switch_rotate_animation that switches from one side straight to the other
switch_rotate_animation_direct(player, state) ==
    CASE state.current = "Origin" /\ state.next = "SideA" /\ ~is_playing_animation(player, "B")
            -> EnterSide(player, "A", state)
      [] state.current = "Origin" /\ state.next = "SideB" /\ ~is_playing_animation(player, "A")
            -> EnterSide(player, "B", state)
      [] state.current = "SideA" /\ state.next = "SideB" -> EnterSide(player, "B", state)
      [] state.current = "SideB" /\ state.next = "SideA" -> EnterSide(player, "A", state)
      [] state.current = "SideA" /\ state.next = "Origin" -> LeaveSide(player, "A", state)
      [] state.current = "SideB" /\ state.next = "Origin" -> LeaveSide(player, "B", state)
      [] OTHER -> [some |-> FALSE, state |-> state, player |-> player]

switch_rotate_animation(player, state) ==
    CASE state.current = "Origin" /\ state.next = "SideA" /\ ~is_playing_animation(player, "B")
            -> EnterSide(player, "A", state)
      [] state.current = "Origin" /\ state.next = "SideB" /\ ~is_playing_animation(player, "A")
            -> EnterSide(player, "B", state)
      [] state.current = "SideA" /\ state.next \in {"Origin", "SideB"}
            -> LeaveSide(player, "A", state)
      [] state.current = "SideB" /\ state.next \in {"Origin", "SideA"}
            -> LeaveSide(player, "B", state)
      [] OTHER -> [some |-> FALSE, state |-> state, player |-> player]

----------------------------------------------------------------------------
(* control: the desired directions from the keyboard *)

Keys == {"KeyA", "KeyD", "ArrowDown", "ArrowUp", "ArrowLeft", "ArrowRight"}

pressed(k, key) == key \in k

\* both or neither key of a pair is pressed
BothOrNeither(k, key1, key2) ==
    (pressed(k, key1) /\ pressed(k, key2)) \/ (~pressed(k, key1) /\ ~pressed(k, key2))

\* elevons that let the left roll key win when both roll keys are pressed
ElevonNext_first_key(k) ==
    IF ~pressed(k, "ArrowLeft") /\ ~pressed(k, "ArrowRight")
    THEN [left_elevon |-> "Origin", right_elevon |-> "Origin"]
    ELSE IF pressed(k, "ArrowLeft")
    THEN [left_elevon |-> "SideA", right_elevon |-> "SideB"]
    ELSE [left_elevon |-> "SideB", right_elevon |-> "SideA"]

ElevonNext(k) ==
    IF BothOrNeither(k, "ArrowLeft", "ArrowRight")
    THEN [left_elevon |-> "Origin", right_elevon |-> "Origin"]
    ELSE IF pressed(k, "ArrowLeft")
    THEN [left_elevon |-> "SideA", right_elevon |-> "SideB"]
    ELSE [left_elevon |-> "SideB", right_elevon |-> "SideA"]

PitchNext(k) ==
    IF BothOrNeither(k, "ArrowDown", "ArrowUp") THEN "Origin"
    ELSE IF pressed(k, "ArrowDown") THEN "SideA"
    ELSE "SideB"

\* ruddervators that ignore the yaw keys while pitch asks for a side
RuddervatorNext_pitch_only(k, pitch_next) ==
    LET to_origin == BothOrNeither(k, "KeyA", "KeyD")
        to_left_pressed == pressed(k, "KeyA")
    IN CASE pitch_next = "SideA" -> [left_ruddervator |-> "SideA", right_ruddervator |-> "SideB"]
         [] pitch_next = "SideB" -> [left_ruddervator |-> "SideB", right_ruddervator |-> "SideA"]
         [] OTHER ->
              IF to_origin THEN [left_ruddervator |-> "Origin", right_ruddervator |-> "Origin"]
              ELSE IF to_left_pressed
              THEN [left_ruddervator |-> "SideB", right_ruddervator |-> "SideB"]
              ELSE [left_ruddervator |-> "SideA", right_ruddervator |-> "SideA"]

RuddervatorNext(k, pitch_next) ==
    LET to_origin == BothOrNeither(k, "KeyA", "KeyD")
        to_left_pressed == pressed(k, "KeyA")
    IN CASE pitch_next = "SideA" ->
              IF to_origin THEN [left_ruddervator |-> "SideA", right_ruddervator |-> "SideB"]
              ELSE IF to_left_pressed
              THEN [left_ruddervator |-> "Origin", right_ruddervator |-> "SideB"]
              ELSE [left_ruddervator |-> "SideA", right_ruddervator |-> "Origin"]
         [] pitch_next = "SideB" ->
              IF to_origin THEN [left_ruddervator |-> "SideB", right_ruddervator |-> "SideA"]
              ELSE IF to_left_pressed
              THEN [left_ruddervator |-> "SideB", right_ruddervator |-> "Origin"]
              ELSE [left_ruddervator |-> "Origin", right_ruddervator |-> "SideA"]
         [] OTHER ->
              IF to_origin THEN [left_ruddervator |-> "Origin", right_ruddervator |-> "Origin"]
              ELSE IF to_left_pressed
              THEN [left_ruddervator |-> "SideB", right_ruddervator |-> "SideB"]
              ELSE [left_ruddervator |-> "SideA", right_ruddervator |-> "SideA"]

\* data after the key section of `control`: every `next` is rewritten
DesiredData(d, k) ==
    LET e == ElevonNext(k)
        p == PitchNext(k)
        r == RuddervatorNext(k, p)
    IN [s \in Surfaces |->
          [d[s] EXCEPT !.next =
              CASE s = "left_elevon" -> e.left_elevon
                [] s = "right_elevon" -> e.right_elevon
                [] s = "left_ruddervator" -> r.left_ruddervator
                [] s = "right_ruddervator" -> r.right_ruddervator
                [] OTHER -> p]]

----------------------------------------------------------------------------
(* control: the loop over the AnimationPlayer entities *)

\* AdditionalPlayers: the four dedicated surface players
DedicatedPlayers == {"elevon_extern_left_player", "elevon_extern_right_player",
                     "ruddervator_left_player", "ruddervator_right_player"}

\* the AnimationPlayer entities that are none of the four: they all take the
\* pitch branch (the aircraft scene brings one)
ScenePlayers == {"scene_player", "scene_player_2"}

Players == DedicatedPlayers \cup ScenePlayers

\* the if / else-if chain on player_entity
SurfaceOf(p) ==
    CASE p = "elevon_extern_left_player" -> "left_elevon"
      [] p = "elevon_extern_right_player" -> "right_elevon"
      [] p = "ruddervator_left_player" -> "left_ruddervator"
      [] p = "ruddervator_right_player" -> "right_ruddervator"
      [] OTHER -> "pitch"

\* a loop head that never stops the finished animations
StopIfFinished_never(player) == player

\* the head of the loop body: if player.all_finished() { player.stop_all() }
StopIfFinished(player) == IF all_finished(player) THEN stop_all(player) ELSE player

\* the loop body for one player and the State of its surface
ControlPlayer(player, state) ==
    LET stopped == StopIfFinished(player)
    IN IF need_update(state)
       THEN switch_rotate_animation(stopped, state)
       ELSE [some |-> FALSE, state |-> state, player |-> stopped]

\* the iterations of the players that take the pitch branch, in query order:
\* they share data.pitch
RECURSIVE PitchLoop(_, _, _)
PitchLoop(order, state, ps) ==
    IF order = <<>> THEN [state |-> state, players |-> ps]
    ELSE LET r == ControlPlayer(ps[Head(order)], state)
         IN PitchLoop(Tail(order), r.state, [ps EXCEPT ![Head(order)] = r.player])

\* the handler `control` for keyboard state k.  The loop visits every player
\* once; each dedicated player touches only the State of its own surface, so
\* these iterations do not depend on the order of the query.
control(k) ==
    /\ phase = "control"
    /\ hold => k = keys
    /\ IF graph_loaded
       THEN LET d == DesiredData(data, k)
                dedicated == [p \in DedicatedPlayers |->
                                ControlPlayer(players[p], d[SurfaceOf(p)])]
                scene == PitchLoop(scene_order, d["pitch"], players)
            IN /\ data' = [s \in Surfaces |->
                             IF s = "pitch" THEN scene.state
                             ELSE dedicated[CHOOSE p \in DedicatedPlayers : SurfaceOf(p) = s].state]
               /\ players' = [p \in Players |->
                                IF p \in DedicatedPlayers THEN dedicated[p].player
                                ELSE scene.players[p]]
       ELSE UNCHANGED <<data, players>>
    /\ keys' = k
    /\ phase' = "advance"
    /\ UNCHANGED <<hold, scene_order, graph_loaded, gear>>
    /\ UNCHANGED <<camVars, inputVars>>

\* the engine's animation system: every active animation is ticked by the frame time
advance_animations(delta) ==
    /\ phase = "advance"
    /\ players' = [p \in Players |->
                     [c \in Clips |->
                        IF players[p][c].active
                        THEN ActiveAnimation_update(players[p][c], delta)
                        ELSE players[p][c]]]
    /\ gear' = [gear EXCEPT !.players =
                    [i \in 1 .. Len(@) |->
                        IF @[i].active THEN ActiveAnimation_update(@[i], delta)
                        ELSE @[i]]]
    /\ phase' = "control"
    /\ UNCHANGED <<keys, data, hold, scene_order, graph_loaded>>
    /\ UNCHANGED <<camVars, inputVars>>

----------------------------------------------------------------------------
(* The landing gear of the hangar scene (hangar.rs).  A player of the      *)
(* hangar scene holds the one clip animations[0].                          *)

\* Local<bool> reverse as the engine creates it, no AnimationPlayer spawned yet
Gear_default == [reverse |-> FALSE, players |-> <<>>]

\* playing_animation.replay()
replay(anim) == [anim EXCEPT !.completions = 0, !.seek_time = 0]

\* player.seek_all_by(amount) on the clip of the player
seek_all_by(anim, amount) ==
    IF anim.active THEN [anim EXCEPT !.seek_time = @ + amount] ELSE anim

\* player.adjust_speeds(factor) on the clip of the player
adjust_speeds(anim, factor) ==
    IF anim.active THEN [anim EXCEPT !.speed = @ * factor] ELSE anim

\* the loop body of control_land_gear_animation for one player
gear_loop_body(anim, reverse) ==
    LET animation_start_time == IF reverse THEN ClipDuration ELSE 0
        restarted == IF anim.active => is_finished(anim)
                     THEN seek_all_by(IF anim.active THEN replay(anim) ELSE anim,
                                      animation_start_time)
                     ELSE anim
        turned == adjust_speeds(restarted, -1)
    IN IF turned.active THEN turned ELSE ActiveAnimation_default

\* a handler that flips `reverse` before it looks for the graph
control_land_gear_animation_flips(g, key_g, loaded) ==
    IF ~key_g THEN g
    ELSE IF ~loaded THEN [g EXCEPT !.reverse = ~@]
    ELSE [reverse |-> ~g.reverse,
          players |-> [i \in 1 .. Len(g.players) |->
                          IF i = 1 THEN gear_loop_body(g.players[i], g.reverse)
                          ELSE g.players[i]]]

\* control_land_gear_animation: G just pressed, the graph loaded or not; the zip
\* with the one clip visits the first player of the query only
control_land_gear_animation(g, key_g, loaded) ==
    IF ~key_g \/ ~loaded THEN g
    ELSE [reverse |-> ~g.reverse,
          players |-> [i \in 1 .. Len(g.players) |->
                          IF i = 1 THEN gear_loop_body(g.players[i], g.reverse)
                          ELSE g.players[i]]]

\* a frame of the hangar scene: control_land_gear_animation runs
ControlLandGear ==
    \E key_g \in BOOLEAN :
        /\ phase = "control"
        /\ gear' = control_land_gear_animation(gear, key_g, graph_loaded)
        /\ keys' = IF key_g THEN {"KeyG"} ELSE {}
        /\ phase' = "advance"
        /\ UNCHANGED <<data, players, hold, scene_order, graph_loaded>>
        /\ UNCHANGED <<camVars, inputVars>>

\* the hangar scene is loaded and spawned: its AnimationPlayer appears
SpawnScenePlayer ==
    /\ phase = "control"
    /\ gear.players = <<>>
    /\ gear' = [gear EXCEPT !.players = <<NotPlaying>>]
    /\ UNCHANGED <<keys, data, players, phase, hold, scene_order, graph_loaded>>
    /\ UNCHANGED <<camVars, inputVars>>

\* the graph becomes available in Assets<AnimationGraph>
LoadGraph ==
    /\ phase = "control"
    /\ ~graph_loaded
    /\ graph_loaded' = TRUE
    /\ UNCHANGED <<keys, data, players, phase, hold, scene_order, gear>>
    /\ UNCHANGED <<camVars, inputVars>>

----------------------------------------------------------------------------
(* Vectors, lengths and rotations of the camera rig and the follow link.   *)
(* A Vec3 is a triple of integers in length units.  The aircraft turns     *)
(* about the vertical axis in quarter turns.  A camera rotation is kept as *)
(* the pair of the direction it was built to look along and the quarter    *)
(* turns multiplied onto it from the left since then.                      *)

Vec3_ZERO == <<0, 0, 0>>

Vec3_add(a, b) == <<a[1] + b[1], a[2] + b[2], a[3] + b[3]>>

Vec3_sub(a, b) == <<a[1] - b[1], a[2] - b[2], a[3] - b[3]>>

length_squared(v) == v[1] * v[1] + v[2] * v[2] + v[3] * v[3]

RECURSIVE sqrt_iter(_, _)
sqrt_iter(n, x) ==
    LET y == (x + n \div x) \div 2
    IN IF y >= x THEN x ELSE sqrt_iter(n, y)

\* the square root, rounded down to a whole length unit
sqrt(n) == IF n = 0 THEN 0 ELSE sqrt_iter(n, n)

length(v) == sqrt(length_squared(v))

\* Quat product and inverse on quarter turns about the vertical axis
Yaws == 0 .. 3

quat_mul(a, b) == (a + b) % 4

quat_inverse(a) == (4 - a) % 4

Transform_from_translation(translation) ==
    [translation |-> translation, rotation |-> 0]

----------------------------------------------------------------------------
(* Configuration and constants of the camera rig *)

\* Option<Entity>::None; entity ids are positive
NoEntity == 0

\* CameraFollowSettings::default_distance (15.0) and default_height (5.0)
FollowDistance == 1500

FollowHeight == 500

\* height of the hangar scene (2.31)
HangarHeight == 231

\* camera presets a configuration file may hold: position and target
PresetBehind == [position |-> <<0, 200, 1000>>, target |-> <<0, 200, 0>>]

PresetSide == [position |-> <<600, 100, 0>>, target |-> <<200, 100, 0>>]

\* `[[camera.presets]]` with no fields: position and target both default to 0
PresetDefault == [position |-> Vec3_ZERO, target |-> Vec3_ZERO]

PresetLists == {<<>>, <<PresetBehind, PresetSide>>, <<PresetDefault>>}

AppState == {"Loading", "Hangar", "InGame"}

Configs ==
    [presets : PresetLists, state : AppState, flight_altitude : {0}]

Follower_default == [followee |-> NoEntity, turn_towards |-> FALSE]

\* smoothness_speed of the camera as main() sets it (8.0), in tenths per second
CameraSmoothness == 80

\* AppCameraParams as main() builds them
AppCameraParams_startup ==
    [position |-> <<-300, 500, 1500>>,
     look_at  |-> <<0, HangarHeight, 0>>,
     follower |-> Follower_default,
     smoothness_speed |-> CameraSmoothness]

NoAircraft ==
    [id        |-> NoEntity,
     transform |-> Transform_from_translation(Vec3_ZERO),
     prev      |-> Transform_from_translation(Vec3_ZERO)]

NoOffset == [some |-> FALSE, value |-> Vec3_ZERO]

----------------------------------------------------------------------------
(* Camera spawn and respawn (camera.rs) *)

\* the target pose of a camera at `position` looking at `target`: the camera
\* sits at distance radius from the focus
PanOrbitCameraTarget_new(position, target) ==
    [focus    |-> target,
     radius   |-> length(Vec3_sub(position, target)),
     rotation |-> [turn |-> 0, look |-> Vec3_sub(position, target)]]

\* the camera entity that spawn_panorbit creates under the entity id `id`
spawn_panorbit(params, id) ==
    LET target == PanOrbitCameraTarget_new(params.position, params.look_at)
    IN [id       |-> id,
        focus    |-> target.focus,
        radius   |-> target.radius,
        target   |-> target,
        follower |-> params.follower]

\* the AppCameraParams that respawn_panorbit writes before it spawns the camera
respawn_panorbit(params, presets, height) ==
    IF Len(presets) > 0
    THEN LET preset == Head(presets)
             additional_translate == <<0, height, 0>>
         IN [params EXCEPT
                !.position = Vec3_add(preset.position, additional_translate),
                !.look_at  = Vec3_add(preset.target, additional_translate)]
    ELSE LET x == FollowDistance \div 3
             y == x \div 2
             z == sqrt(31 * FollowDistance * FollowDistance) \div 6
             additional_translate == <<0, height + FollowHeight, 0>>
         IN [params EXCEPT
                !.position = Vec3_add(<<x, y, z>>, additional_translate),
                !.look_at  = additional_translate]

----------------------------------------------------------------------------
(* Scene setup and cleanup (state/hangar.rs, state/ingame.rs).  A world is *)
(* the record of the entities and resources these systems write.           *)

World == [camera_params |-> camera_params, camera |-> camera,
          aircraft |-> aircraft, next_entity |-> next_entity,
          cameras |-> cameras, app_camera_entity |-> app_camera_entity]

\* a despawn that removes nothing
despawn_nothing(entities, entity) == entities

\* commands.entity(camera).despawn() on the live entities
despawn(entities, entity) == entities \ {entity}

\* commands.spawn(..) under the entity id `id`
spawn(entities, id) == entities \cup {id}

hangar_setup(w) ==
    LET params == respawn_panorbit(w.camera_params, config.presets, HangarHeight)
    IN [w EXCEPT !.camera_params = params,
                 !.camera = spawn_panorbit(params, w.next_entity),
                 !.cameras = spawn(despawn(@, w.app_camera_entity), w.next_entity),
                 !.app_camera_entity = w.next_entity,
                 !.next_entity = @ + 1]

ingame_setup(w) ==
    LET altitude  == config.flight_altitude
        transform == Transform_from_translation(<<0, altitude, 0>>)
        entity_id == w.next_entity
        followed  == [w.camera_params EXCEPT !.follower.followee = entity_id]
        params    == respawn_panorbit(followed, config.presets, altitude)
    IN [camera_params |-> params,
        camera        |-> spawn_panorbit(params, entity_id + 1),
        aircraft      |-> [id |-> entity_id, transform |-> transform, prev |-> transform],
        next_entity   |-> entity_id + 2,
        cameras       |-> spawn(despawn(w.cameras, w.app_camera_entity), entity_id + 1),
        app_camera_entity |-> entity_id + 1]

ingame_cleanup(w) == [w EXCEPT !.aircraft = NoAircraft]

\* a lookup that takes every entity id for a live followee
followee_query_get_unchecked(entity) == entity # NoEntity

\* Query<.., With<Followee>>::get(entity).is_ok()
followee_query_get(entity) == entity # NoEntity /\ entity = aircraft.id

\* the camera follows a live followee
Following == followee_query_get(camera.follower.followee)

Offset == Vec3_sub(camera.target.focus, aircraft.transform.translation)

----------------------------------------------------------------------------
(* The pan-orbit input system (camera/panorbit.rs).  The camera turns in   *)
(* quarter turns: yaw about the vertical axis, pitch about its own x axis. *)
(* The focus and the translation of the camera are written by this system  *)
(* and read by none of its branches; they are not part of the state.       *)

\* largest radius the camera is zoomed out to
MaxRadius == 20

\* the zoom never takes the radius below this (0.05)
RadiusFloor == 5

\* MouseMotion deltas of a frame, summed, in quarter turns of orbit
Motions == {<<0, 0>>, <<1, 0>>, <<0, 1>>}

\* MouseWheel deltas of a frame, summed
Scrolls == {-1, 0, 1, 6}

Mouse == [orbit_pressed : BOOLEAN, pan_pressed : BOOLEAN,
          motion : Motions, scroll : Scrolls]

Mouse_idle == [orbit_pressed |-> FALSE, pan_pressed |-> FALSE,
               motion |-> <<0, 0>>, scroll |-> 0]

f32_max(a, b) == IF a >= b THEN a ELSE b

\* a zoom step without the floor
zoom_unclamped(radius, scroll) == radius - (scroll * radius) \div 5

\* a zoom that takes a tenth of the radius per unit of scroll
zoom_tenth(radius, scroll) ==
    f32_max(radius - (scroll * radius) \div 10, RadiusFloor)

\* the zoom branch of update_input
zoom(radius, scroll) ==
    f32_max(radius - (scroll * radius) \div 5, RadiusFloor)

\* the camera after update_input has consumed the events of the frame; `before`
\* is the button state of the previous frame
update_input(cam, before, now) ==
    LET rotation_move == IF now.orbit_pressed THEN now.motion ELSE <<0, 0>>
        pan_move == IF ~now.orbit_pressed /\ now.pan_pressed THEN now.motion ELSE <<0, 0>>
        orbit_button_changed == now.orbit_pressed # before.orbit_pressed
        checked == IF orbit_button_changed
                   THEN [cam EXCEPT !.upside_down = (cam.pitch # 0)]
                   ELSE cam
    IN IF rotation_move # <<0, 0>>
       THEN LET delta_x == IF checked.upside_down
                           THEN 4 - rotation_move[1] ELSE rotation_move[1]
                delta_y == rotation_move[2]
            IN [checked EXCEPT !.yaw = (@ + 4 - delta_x) % 4,
                               !.pitch = (@ + 4 - delta_y) % 4]
       ELSE IF pan_move # <<0, 0>>
       THEN checked
       ELSE IF now.scroll # 0
       THEN [checked EXCEPT !.radius = zoom(@, now.scroll)]
       ELSE checked

UpdateInputEvents ==
    \E now \in Mouse :
        /\ update_input(pan_orbit, mouse, now).radius <= MaxRadius
        /\ pan_orbit' = update_input(pan_orbit, mouse, now)
        /\ mouse' = now
        /\ UNCHANGED <<query, readers>>
        /\ UNCHANGED <<animVars, camVars>>

\* largest number of cameras the query of update_input matches
MaxCameras == 2

\* largest number of events of one kind sent within a frame
MaxEvents == 2

\* the deltas of single MouseMotion events
MotionEvents == {<<1, 0>>}

\* the y of single MouseWheel events
WheelEvents == {-1, 6}

EventsOf(S) == UNION {[1 .. n -> S] : n \in 0 .. MaxEvents}

\* EventReader with nothing left to read
NoEvents == [motion |-> <<>>, scroll |-> <<>>]

\* rotation_move += motion.delta, pan += motion.delta
RECURSIVE sum_motion(_)
sum_motion(events) ==
    IF events = <<>> THEN <<0, 0>>
    ELSE LET rest == sum_motion(Tail(events))
         IN <<Head(events)[1] + rest[1], Head(events)[2] + rest[2]>>

\* scroll += wheel.y
RECURSIVE sum_scroll(_)
sum_scroll(events) ==
    IF events = <<>> THEN 0 ELSE Head(events) + sum_scroll(Tail(events))

\* the camera loop of update_input: every camera reads what the readers still
\* hold, the motion events only while the orbit or the pan button is pressed
RECURSIVE update_input_loop(_, _, _, _)
update_input_loop(cams, before, buttons, unread) ==
    IF cams = <<>> THEN [cams |-> <<>>, unread |-> unread]
    ELSE LET reads_motion == buttons.orbit_pressed \/ buttons.pan_pressed
             now == [orbit_pressed |-> buttons.orbit_pressed,
                     pan_pressed |-> buttons.pan_pressed,
                     motion |-> IF reads_motion THEN sum_motion(unread.motion)
                                ELSE <<0, 0>>,
                     scroll |-> sum_scroll(unread.scroll)]
             left == [motion |-> IF reads_motion THEN <<>> ELSE unread.motion,
                      scroll |-> <<>>]
             rest == update_input_loop(Tail(cams), before, buttons, left)
         IN [cams |-> <<update_input(Head(cams), before, now)>> \o rest.cams,
             unread |-> rest.unread]

\* motion_events.clear() after the loop
clear_motion(unread) == [unread EXCEPT !.motion = <<>>]

\* update_input over all cameras of the query
update_input_system(cams, before, buttons, unread) ==
    LET done == update_input_loop(cams, before, buttons, unread)
    IN [done EXCEPT !.unread = clear_motion(@)]

\* one frame of the input system: the events of the frame are sent, the system
\* runs; events older than the frame before are dropped by the engine
UpdateInputSystem ==
    \E orbit \in BOOLEAN, pan \in BOOLEAN,
       motion \in EventsOf(MotionEvents), scroll \in EventsOf(WheelEvents) :
        LET buttons == [orbit_pressed |-> orbit, pan_pressed |-> pan]
            sent == [motion |-> motion, scroll |-> scroll]
            done == update_input_system(query, mouse, buttons, sent)
        IN /\ \A i \in 1 .. Len(done.cams) : done.cams[i].radius <= MaxRadius
           /\ query' = done.cams
           /\ readers' = done.unread
           /\ mouse' = [orbit_pressed |-> orbit, pan_pressed |-> pan,
                        motion |-> sum_motion(motion), scroll |-> sum_scroll(scroll)]
           /\ UNCHANGED pan_orbit
           /\ UNCHANGED <<animVars, camVars>>

\* the camera as panorbit spawn creates it, before any input
InputAtRest ==
    /\ pan_orbit = [radius |-> length(<<-300, 500, 1500>>), upside_down |-> FALSE,
                    yaw |-> 0, pitch |-> 0]
    /\ mouse = Mouse_idle
    /\ query = <<>>
    /\ readers = NoEvents

----------------------------------------------------------------------------
(* Bounds of the camera model *)

\* how many steps the aircraft travels away from its spawn point
MaxTravel == 2

\* how far the aircraft turns away from its spawn heading, in quarter turns
MaxYaw == 1

\* how many pan inputs, preset recalls and scene changes are fed in altogether
MaxInputs == 2

\* what `movement` adds to the translation of the aircraft in one frame
Moves == {Vec3_ZERO, <<500, 0, 0>>}

\* what `rotation` turns the aircraft by in one frame, in quarter turns
Turns == {0, 1}

\* what a pan input adds to the focus of the camera target
PanOffsets == {<<100, 0, 0>>}

----------------------------------------------------------------------------
(* The thrust of the aircraft (aircraft.rs).  Thrust is counted in steps   *)
(* of 0.05 and time in tenths of a second.                                 *)

\* thrust 1.0
ThrustOne == 20

\* the target thrust of a new aircraft (20.0)
ThrustTargetNew == 400

\* change_speed (2.0 per second), in steps of thrust per tenth of a second
ChangeSpeed == 4

\* the step of the target per tenth of a second a throttle key is held
ThrottleStep == 2

\* frame times: a tenth of a second, and a frame that took 0.6 s
ThrustDeltas == {1, 6}

ThrottleKeySets == SUBSET {"KeyW", "PageUp", "KeyS", "PageDown"}

f32_min(a, b) == IF a <= b THEN a ELSE b

\* Thrust::new
Thrust_new == [current |-> 0, target |-> ThrustTargetNew, change_speed |-> ChangeSpeed]

\* update_thrust on one Thrust under the keys k held for the frame time delta
update_thrust(th, k, delta) ==
    LET up == IF "KeyW" \in k \/ "PageUp" \in k
              THEN [th EXCEPT !.target = f32_min(@ + ThrottleStep * delta, ThrustOne)]
              ELSE th
        down == IF "KeyS" \in k \/ "PageDown" \in k
                THEN [up EXCEPT !.target = f32_max(@ - ThrottleStep * delta, 0)]
                ELSE up
    IN [down EXCEPT !.current =
           @ + ((down.target - @) * down.change_speed * delta) \div ThrustOne]

UpdateThrust ==
    \E k \in ThrottleKeySets, delta \in ThrustDeltas :
        /\ thrust' = update_thrust(thrust, k, delta)
        /\ time_delta' = delta
        /\ UNCHANGED <<config, app_state, next_state, camera_params, camera, aircraft,
                       rotation_speed, next_entity, cameras, app_camera_entity, sys, frame, used>>
        /\ UNCHANGED <<animVars, inputVars>>

----------------------------------------------------------------------------
(* Exponential smoothing (aircraft.rs rotation, camera/panorbit.rs          *)
(* interpolate_camera).  A factor is counted in parts of SmoothScale, a     *)
(* smoothness speed in tenths per second, time in tenths of a second, an   *)
(* angular rate in tenths of a radian per second.  A product is            *)
(* rounded to the nearest unit, as a float operation rounds to the nearest *)
(* representable number.                                                   *)

\* the factor 1.0
SmoothScale == 10000

\* exp(-0.01), in parts of SmoothScale
ExpStep == 9900

\* smoothness_speed of the angular rate of the aircraft (1.2)
AircraftSmoothness == 12

\* yaw_speed, pitch_speed and roll_speed of Aircraft::new (1.0, 2.0, 3.0)
YawSpeed == 10

PitchSpeed == 20

RollSpeed == 30

Movement_default == [rotation_speed |-> Vec3_ZERO]

\* n parts of SmoothScale, rounded to the nearest unit
f32_round(n) == (2 * n + SmoothScale) \div (2 * SmoothScale)

\* (-x).exp() for x in hundredths, in parts of SmoothScale
RECURSIVE exp_neg(_)
exp_neg(x) ==
    IF x = 0 THEN SmoothScale
    ELSE IF x % 2 = 0
         THEN LET half == exp_neg(x \div 2) IN (half * half) \div SmoothScale
         ELSE (ExpStep * exp_neg(x - 1)) \div SmoothScale

\* a factor that is the first-order term of the exponential: speed * delta
lerp_factor_linear(smoothness_speed, delta) ==
    smoothness_speed * delta * (SmoothScale \div 100)

\* 1.0 - (-smoothness_speed * delta).exp()
lerp_factor(smoothness_speed, delta) ==
    SmoothScale - exp_neg(smoothness_speed * delta)

\* a step that adds the share of the target and forgets to take off the
\* share of the current value
lerp_additive(a, b, s) == a + f32_round(b * s)

\* f32 lerp: self + (rhs - self) * s
lerp(a, b, s) == a + f32_round((b - a) * s)

\* Vec3::lerp
Vec3_lerp(a, b, s) ==
    <<lerp(a[1], b[1], s), lerp(a[2], b[2], s), lerp(a[3], b[3], s)>>

\* the angular rate the held keys ask for
rotation_target(k) ==
    <<(IF "ArrowUp" \in k THEN PitchSpeed ELSE 0)
        - (IF "ArrowDown" \in k THEN PitchSpeed ELSE 0),
      (IF "KeyA" \in k THEN YawSpeed ELSE 0)
        - (IF "KeyD" \in k THEN YawSpeed ELSE 0),
      (IF "ArrowRight" \in k THEN RollSpeed ELSE 0)
        - (IF "ArrowLeft" \in k THEN RollSpeed ELSE 0)>>

\* aircraft.rs rotation on one Movement: the angular rate is smoothed toward
\* the rate of the held keys
smooth_rotation_speed(speed, k, delta) ==
    LET target == rotation_target(k)
    IN IF speed # Vec3_ZERO \/ target # Vec3_ZERO
       THEN Vec3_lerp(speed, target, lerp_factor(AircraftSmoothness, delta))
       ELSE speed

\* camera/panorbit.rs interpolate_camera: focus and radius of the current pose
\* go toward the target pose
interpolate_camera(cam, smoothness_speed, delta) ==
    LET factor == lerp_factor(smoothness_speed, delta)
    IN [cam EXCEPT !.focus  = Vec3_lerp(@, cam.target.focus, factor),
                   !.radius = lerp(@, cam.target.radius, factor)]

----------------------------------------------------------------------------
(* The systems of a frame (state.rs, aircraft.rs, camera.rs, follow.rs) *)

\* the order in which the systems of one frame run; the thrust, the surface
\* animation and the smoothing of the camera pose, which write none of the
\* variables of the follow link, are left out
Schedule ==
    <<"state_transition", "change", "movement", "rotation", "follow_toggle",
      "follow_move", "update_previous_transform", "preset_toggle", "update_input">>

After(s) ==
    LET i == CHOOSE j \in 1 .. Len(Schedule) : Schedule[j] = s
    IN Schedule[(i % Len(Schedule)) + 1]

\* system s runs and hands over to the next system of the schedule
Runs(s) ==
    /\ sys = s
    /\ sys' = After(s)
    /\ UNCHANGED <<config, thrust, time_delta, rotation_speed>>
    /\ UNCHANGED <<animVars, inputVars>>

\* the pending transition is applied: OnExit of the old state, OnEnter of the new
StateTransition ==
    /\ Runs("state_transition")
    /\ LET applies == next_state \notin {"Unchanged", app_state}
           exited  == IF applies /\ app_state = "InGame"
                      THEN ingame_cleanup(World) ELSE World
           entered == IF applies /\ next_state = "Hangar" THEN hangar_setup(exited)
                      ELSE IF applies /\ next_state = "InGame" THEN ingame_setup(exited)
                      ELSE exited
       IN /\ app_state' = IF applies THEN next_state ELSE app_state
          /\ camera_params' = entered.camera_params
          /\ camera' = entered.camera
          /\ aircraft' = entered.aircraft
          /\ next_entity' = entered.next_entity
          /\ cameras' = entered.cameras
          /\ app_camera_entity' = entered.app_camera_entity
          /\ frame' = [start     |-> entered.aircraft.transform,
                       refreshes |-> 0,
                       offset    |-> IF Following
                                     THEN [some |-> TRUE, value |-> Offset]
                                     ELSE NoOffset,
                       disturbed |-> applies,
                       writers   |-> {},
                       recalled  |-> 0]
    /\ next_state' = "Unchanged"
    /\ UNCHANGED used

\* a change that takes Tab in every state, Loading included
change_any_state(state, pending, tab) ==
    IF tab /\ state = "InGame" THEN "Hangar"
    ELSE IF tab THEN "InGame"
    ELSE pending

\* state.rs change: Tab asks for the other scene
change(state, pending, tab) ==
    IF tab /\ state = "Hangar" THEN "InGame"
    ELSE IF tab /\ state = "InGame" THEN "Hangar"
    ELSE pending

Change ==
    \E tab \in BOOLEAN :
        /\ Runs("change")
        /\ tab => used < MaxInputs
        /\ next_state' = change(app_state, next_state, tab)
        /\ used' = IF tab THEN used + 1 ELSE used
        /\ UNCHANGED <<app_state, camera_params, camera, aircraft, next_entity, cameras, app_camera_entity, frame>>

\* aircraft.rs movement: the velocity of the frame is added to the translation
movement(transform, step) ==
    [transform EXCEPT !.translation = Vec3_add(@, step)]

Movement ==
    \E step \in Moves :
        /\ Runs("movement")
        /\ IF aircraft.id # NoEntity
           THEN /\ Vec3_add(aircraft.transform.translation, step)[1] <= 500 * MaxTravel
                /\ aircraft' = [aircraft EXCEPT !.transform = movement(@, step)]
           ELSE /\ step = Vec3_ZERO
                /\ UNCHANGED aircraft
        /\ UNCHANGED <<app_state, next_state, camera_params, camera, next_entity, cameras, app_camera_entity, frame, used>>

\* aircraft.rs rotation: the rotation of the frame is multiplied onto the transform
rotation(transform, turn) ==
    [transform EXCEPT !.rotation = quat_mul(@, turn)]

Rotation ==
    \E turn \in Turns :
        /\ Runs("rotation")
        /\ IF aircraft.id # NoEntity
           THEN /\ aircraft.transform.rotation + turn <= MaxYaw
                /\ aircraft' = [aircraft EXCEPT !.transform = rotation(@, turn)]
           ELSE /\ turn = 0
                /\ UNCHANGED aircraft
        /\ UNCHANGED <<app_state, next_state, camera_params, camera, next_entity, cameras, app_camera_entity, frame, used>>

\* a follow_toggle whose F key links the followee and never unlinks it
follow_toggle_link_only(follower, key_f, key_t) ==
    LET linked == IF ~key_f THEN follower
                  ELSE [follower EXCEPT !.followee = aircraft.id]
    IN IF key_t THEN [linked EXCEPT !.turn_towards = ~@] ELSE linked

\* camera.rs follow_toggle: F links or unlinks the followee, T toggles turn_towards
follow_toggle(follower, key_f, key_t) ==
    LET linked == IF ~key_f THEN follower
                  ELSE IF follower.followee = NoEntity
                       THEN [follower EXCEPT !.followee = aircraft.id]
                       ELSE [follower EXCEPT !.followee = NoEntity]
    IN IF key_t THEN [linked EXCEPT !.turn_towards = ~@] ELSE linked

FollowToggle ==
    \E key_f, key_t \in BOOLEAN :
        /\ Runs("follow_toggle")
        /\ camera' = [camera EXCEPT !.follower = follow_toggle(@, key_f, key_t)]
        /\ frame' = [frame EXCEPT !.disturbed = @ \/ key_f]
        /\ UNCHANGED <<app_state, next_state, camera_params, aircraft, next_entity, cameras, app_camera_entity, used>>

\* follow_toggle with the keys just pressed in the frame kept in `keys`
FollowToggleKeys ==
    \E k \in SUBSET {"KeyF", "KeyT"} :
        /\ sys = "follow_toggle"
        /\ sys' = After("follow_toggle")
        /\ keys' = k
        /\ camera' = [camera EXCEPT
                         !.follower = follow_toggle(@, "KeyF" \in k, "KeyT" \in k)]
        /\ frame' = [frame EXCEPT !.disturbed = @ \/ "KeyF" \in k]
        /\ UNCHANGED <<data, players, phase, hold, scene_order, graph_loaded, gear>>
        /\ UNCHANGED <<config, app_state, next_state, camera_params, aircraft,
                       thrust, time_delta, rotation_speed, next_entity, cameras,
                       app_camera_entity, used>>
        /\ UNCHANGED inputVars

\* the systems that have changed the camera target in the running frame, after
\* system s has left the camera as cam
Written(writers, s, cam) ==
    IF cam.target # camera.target THEN writers \cup {s} ELSE writers

\* a follow_move that puts both focus points onto the followee
follow_move_absolute(cam, followee) ==
    IF followee_query_get(cam.follower.followee)
    THEN [cam EXCEPT !.target.focus = followee.transform.translation,
                     !.focus = followee.transform.translation]
    ELSE cam

\* a follow_move that moves the current pose and leaves the target pose behind
follow_move_current_only(cam, followee) ==
    IF followee_query_get(cam.follower.followee)
    THEN [cam EXCEPT !.focus = Vec3_add(@, Vec3_sub(followee.transform.translation,
                                                    followee.prev.translation))]
    ELSE cam

\* camera.rs follow_move: the camera and its target take over what the followee
\* has moved (and, with turn_towards, turned) since its PreviousTransform
follow_move(cam, followee) ==
    IF followee_query_get(cam.follower.followee)
    THEN LET delta_rotation == quat_mul(followee.transform.rotation,
                                        quat_inverse(followee.prev.rotation))
             delta_focus == Vec3_sub(followee.transform.translation,
                                     followee.prev.translation)
             turned == IF cam.follower.turn_towards
                       THEN [cam EXCEPT !.target.rotation.turn = quat_mul(delta_rotation, @)]
                       ELSE cam
         IN [turned EXCEPT !.target.focus = Vec3_add(@, delta_focus),
                           !.focus = Vec3_add(@, delta_focus)]
    ELSE cam

FollowMove ==
    /\ Runs("follow_move")
    /\ camera' = follow_move(camera, aircraft)
    /\ frame' = [frame EXCEPT !.writers = Written(@, "follow_move", camera')]
    /\ UNCHANGED <<app_state, next_state, camera_params, aircraft, next_entity, cameras, app_camera_entity, used>>

\* a refresh that leaves the PreviousTransform as it is
update_previous_transform_stale(entity) == entity

\* follow.rs update_previous_transform
update_previous_transform(entity) == [entity EXCEPT !.prev = entity.transform]

UpdatePreviousTransform ==
    /\ Runs("update_previous_transform")
    /\ IF aircraft.id # NoEntity
       THEN /\ aircraft' = update_previous_transform(aircraft)
            /\ frame' = [frame EXCEPT !.refreshes = @ + 1]
       ELSE UNCHANGED <<aircraft, frame>>
    /\ UNCHANGED <<app_state, next_state, camera_params, camera, next_entity, cameras, app_camera_entity, used>>

\* the preset that the keys of a frame recall, counted from 1; 0: none
recalled_preset(ctrl, digit1, digit2) ==
    LET preset_idx == IF digit2 THEN 2 ELSE IF digit1 THEN 1 ELSE 0
    IN IF ctrl /\ preset_idx <= Len(config.presets) THEN preset_idx ELSE 0

\* camera.rs preset_toggle: Ctrl with Digit1 or Digit2 recalls a preset, moved and
\* turned by the followee's transform, or moved by the present focus of the target
preset_toggle(cam, ctrl, digit1, digit2) ==
    LET preset_idx == recalled_preset(ctrl, digit1, digit2)
    IN IF preset_idx # 0
       THEN LET preset == config.presets[preset_idx]
                additional_transform ==
                    IF followee_query_get(cam.follower.followee)
                    THEN aircraft.transform
                    ELSE Transform_from_translation(cam.target.focus)
                target == PanOrbitCameraTarget_new(preset.position, preset.target)
            IN [cam EXCEPT !.target =
                   [focus    |-> Vec3_add(target.focus, additional_transform.translation),
                    radius   |-> target.radius,
                    rotation |-> [target.rotation EXCEPT
                                    !.turn = quat_mul(additional_transform.rotation, @)]]]
       ELSE cam

PresetToggle ==
    \E ctrl, digit1, digit2 \in BOOLEAN :
        /\ Runs("preset_toggle")
        /\ (digit1 \/ digit2) => ctrl /\ used < MaxInputs
        /\ ~(digit1 \/ digit2) => ~ctrl
        /\ camera' = preset_toggle(camera, ctrl, digit1, digit2)
        /\ used' = IF ctrl THEN used + 1 ELSE used
        /\ frame' = [frame EXCEPT !.disturbed = @ \/ ctrl,
                                  !.writers = Written(@, "preset_toggle", camera'),
                                  !.recalled = recalled_preset(ctrl, digit1, digit2)]
        /\ UNCHANGED <<app_state, next_state, camera_params, aircraft, next_entity, cameras, app_camera_entity>>

\* panorbit update_input, pan mode: the focus of the target moves with the pointer
pan(cam, offset) == [cam EXCEPT !.target.focus = Vec3_add(@, offset)]

UpdateInput ==
    \E offset \in PanOffsets \cup {Vec3_ZERO} :
        /\ Runs("update_input")
        /\ offset # Vec3_ZERO => used < MaxInputs
        /\ camera' = pan(camera, offset)
        /\ used' = IF offset # Vec3_ZERO THEN used + 1 ELSE used
        /\ frame' = [frame EXCEPT !.disturbed = @ \/ offset # Vec3_ZERO,
                                  !.writers = Written(@, "update_input", camera')]
        /\ UNCHANGED <<app_state, next_state, camera_params, aircraft, next_entity, cameras, app_camera_entity>>

----------------------------------------------------------------------------
(* Specification of the frame loop of the camera rig *)

\* the surfaces before any key is pressed
SurfacesAtRest ==
    /\ keys = {}
    /\ data = AnimationData_default
    /\ players = [p \in Players |-> AnimationPlayer_default]
    /\ phase = "control"
    /\ hold = FALSE

\* the sequencer before any key is pressed: the graph is in the assets since
\* the startup system added it, the hangar scene has brought no player yet
AnimationAtRest ==
    /\ SurfacesAtRest
    /\ scene_order = <<"scene_player">>
    /\ graph_loaded = TRUE
    /\ gear = Gear_default

\* the world after Startup under configuration cfg: the camera spawned from the
\* parameters of main(), the configured state requested
Startup(cfg) ==
    /\ config = cfg
    /\ app_state = "Loading"
    /\ next_state = cfg.state
    /\ camera_params = AppCameraParams_startup
    /\ camera = spawn_panorbit(AppCameraParams_startup, NoEntity + 1)
    /\ aircraft = NoAircraft
    /\ thrust = Thrust_new
    /\ time_delta = 0
    /\ rotation_speed = Movement_default.rotation_speed
    /\ next_entity = NoEntity + 2
    /\ cameras = {NoEntity + 1}
    /\ app_camera_entity = NoEntity + 1
    /\ sys = "state_transition"
    /\ frame = [start |-> NoAircraft.transform, refreshes |-> 0,
                offset |-> NoOffset, disturbed |-> FALSE, writers |-> {},
                recalled |-> 0]
    /\ used = 0

\* the configuration the other parts of the model are checked under
Config_loading == [presets |-> <<>>, state |-> "Loading", flight_altitude |-> 0]

InitFrame == AnimationAtRest /\ InputAtRest /\ \E cfg \in Configs : Startup(cfg)

NextFrame ==
    \/ StateTransition
    \/ Change
    \/ Movement
    \/ Rotation
    \/ FollowToggle
    \/ FollowMove
    \/ UpdatePreviousTransform
    \/ PresetToggle
    \/ UpdateInput

SpecFrame == InitFrame /\ [][NextFrame]_vars

----------------------------------------------------------------------------
(* The frame loop with the follow keys of every frame on record, started   *)
(* in either scene without camera presets                                  *)

InitToggle ==
    /\ AnimationAtRest
    /\ InputAtRest
    /\ \E cfg \in Configs : cfg.presets = <<>> /\ cfg.state # "Loading" /\ Startup(cfg)

NextToggle ==
    \/ StateTransition
    \/ Change
    \/ Movement
    \/ Rotation
    \/ FollowToggleKeys
    \/ FollowMove
    \/ UpdatePreviousTransform
    \/ PresetToggle
    \/ UpdateInput

SpecToggle == InitToggle /\ [][NextToggle]_vars

----------------------------------------------------------------------------
(* Specification of the pan-orbit input system: the camera starts with any *)
(* radius up to MaxRadius and update_input runs once in every frame        *)

InitInput ==
    /\ AnimationAtRest
    /\ Startup(Config_loading)
    /\ pan_orbit \in [radius : 0 .. MaxRadius, upside_down : {FALSE},
                      yaw : {0}, pitch : {0}]
    /\ mouse = Mouse_idle
    /\ query = <<>>
    /\ readers = NoEvents

NextInput == UpdateInputEvents

SpecInput == InitInput /\ [][NextInput]_vars

----------------------------------------------------------------------------
(* Specification of the event handling of the input system: the query      *)
(* matches any number of cameras up to MaxCameras, update_input runs once  *)
(* in every frame on the events sent in that frame                         *)

Cameras == [radius : {RadiusFloor}, upside_down : {FALSE},
            yaw : {0}, pitch : {0}]

InitEvents ==
    /\ AnimationAtRest
    /\ Startup(Config_loading)
    /\ pan_orbit = [radius |-> length(<<-300, 500, 1500>>), upside_down |-> FALSE,
                    yaw |-> 0, pitch |-> 0]
    /\ mouse = Mouse_idle
    /\ query \in UNION {[1 .. n -> Cameras] : n \in 0 .. MaxCameras}
    /\ readers = NoEvents

NextEvents == UpdateInputSystem

SpecEvents == InitEvents /\ [][NextEvents]_vars

----------------------------------------------------------------------------
(* Specification of the thrust: the aircraft has just been spawned,        *)
(* update_thrust runs once in every frame                                  *)

InitThrust == AnimationAtRest /\ Startup(Config_loading) /\ InputAtRest

NextThrust == UpdateThrust

SpecThrust == InitThrust /\ [][NextThrust]_vars

----------------------------------------------------------------------------
(* Specification of the smoothing: the flight scene is set up, the current *)
(* pose of the camera lies up to MaxOffset off its target pose, as after a *)
(* pan or a preset recall; interpolate_camera and the rotation of the      *)
(* aircraft run under any frame time of SmoothDeltas; the camera is built  *)
(* with any smoothness speed of SmoothnessSpeeds                           *)

\* how far the current pose starts off the target pose
MaxOffset == 3

\* frame times, in tenths of a second
SmoothDeltas == {0, 1, 6}

\* smoothness speeds a camera may be built with (with_smoothness_speed)
SmoothnessSpeeds == {AircraftSmoothness, CameraSmoothness}

RotationKeySets == {{}, {"ArrowUp", "KeyA", "ArrowLeft"}}

Config_ingame == [presets |-> <<>>, state |-> "InGame", flight_altitude |-> 0]

InitSmooth ==
    /\ AnimationAtRest
    /\ InputAtRest
    /\ config = Config_ingame
    /\ app_state = "InGame"
    /\ next_state = "Unchanged"
    /\ \E d \in -MaxOffset .. MaxOffset, smoothness_speed \in SmoothnessSpeeds :
         LET params == [AppCameraParams_startup
                          EXCEPT !.smoothness_speed = smoothness_speed]
             w == ingame_setup(
                    [camera_params     |-> params,
                     camera            |-> spawn_panorbit(params, NoEntity + 1),
                     aircraft          |-> NoAircraft,
                     next_entity       |-> NoEntity + 2,
                     cameras           |-> {NoEntity + 1},
                     app_camera_entity |-> NoEntity + 1])
         IN /\ camera_params = w.camera_params
            /\ camera = [w.camera EXCEPT !.focus  = Vec3_add(@, <<d, -d, 0>>),
                                         !.radius = @ + d]
            /\ aircraft = w.aircraft
            /\ next_entity = w.next_entity
            /\ cameras = w.cameras
            /\ app_camera_entity = w.app_camera_entity
            /\ frame = [start |-> w.aircraft.transform, refreshes |-> 0,
                        offset |-> NoOffset, disturbed |-> FALSE, writers |-> {},
                        recalled |-> 0]
    /\ thrust = Thrust_new
    /\ time_delta = 0
    /\ rotation_speed = Movement_default.rotation_speed
    /\ sys = "update_input"
    /\ used = 0

InterpolateCamera ==
    \E delta \in SmoothDeltas :
        /\ camera' = interpolate_camera(camera, camera_params.smoothness_speed, delta)
        /\ time_delta' = delta
        /\ sys' = "interpolate_camera"
        /\ UNCHANGED <<config, app_state, next_state, camera_params, aircraft, thrust,
                       rotation_speed, next_entity, cameras, app_camera_entity, frame, used>>
        /\ UNCHANGED <<animVars, inputVars>>

SmoothRotation ==
    \E k \in RotationKeySets, delta \in SmoothDeltas, turn \in Turns :
        /\ aircraft.id # NoEntity
        /\ rotation_speed' = smooth_rotation_speed(rotation_speed, k, delta)
        /\ turn # 0 => rotation_speed' # Vec3_ZERO /\ delta > 0
        /\ aircraft.transform.rotation + turn <= MaxYaw
        /\ aircraft' = [aircraft EXCEPT !.transform = rotation(@, turn)]
        /\ keys' = k
        /\ time_delta' = delta
        /\ sys' = "rotation"
        /\ UNCHANGED <<config, app_state, next_state, camera_params, camera, thrust,
                       next_entity, cameras, app_camera_entity, frame, used>>
        /\ UNCHANGED <<data, players, phase, hold, scene_order, graph_loaded, gear>>
        /\ UNCHANGED inputVars

NextSmooth == InterpolateCamera \/ SmoothRotation

SpecSmooth == InitSmooth /\ [][NextSmooth]_vars

----------------------------------------------------------------------------
(* Specification of the animation systems around the loading of their      *)
(* assets: the graph may be missing at first, the player of the hangar      *)
(* scene appears when the scene is spawned; a frame runs `control` under    *)
(* the pitch-up key or control_land_gear_animation, then the animation      *)
(* system                                                                   *)

InitAssets ==
    /\ SurfacesAtRest
    /\ scene_order = <<"scene_player">>
    /\ graph_loaded \in BOOLEAN
    /\ gear = Gear_default
    /\ Startup(Config_loading)
    /\ InputAtRest

AssetKeySets == SUBSET {"ArrowDown"}

ControlAssets == \E k \in AssetKeySets : control(k)

AdvanceAssets == \E delta \in Deltas : advance_animations(delta)

NextAssets ==
    \/ ControlAssets
    \/ ControlLandGear
    \/ AdvanceAssets
    \/ SpawnScenePlayer
    \/ LoadGraph

SpecAssets == InitAssets /\ [][NextAssets]_vars

----------------------------------------------------------------------------
(* Specification of the animation sequencer *)

Init == AnimationAtRest /\ Startup(Config_loading) /\ InputAtRest

\* the keyboard states a frame may see: the yaw and pitch keys drive the pitch
\* surface and both ruddervators; the elevons read only the roll keys
KeySets == SUBSET {"KeyA", "KeyD", "ArrowDown", "ArrowUp"}

Control == \E k \in KeySets : control(k)

Advance == \E delta \in Deltas : advance_animations(delta)

Next == Control \/ Advance

Spec == Init /\ [][Next]_vars

----------------------------------------------------------------------------
(* The sequencer with a keyboard state that is eventually held constant.   *)
(* The engine runs `control` and the animation system once in every frame. *)

HoldKeys ==
    /\ phase = "control"
    /\ ~hold
    /\ hold' = TRUE
    /\ UNCHANGED <<keys, data, players, phase, scene_order, graph_loaded, gear>>
    /\ UNCHANGED <<camVars, inputVars>>

HoldKeySets == (SUBSET {"ArrowDown", "ArrowUp"}) \cup {{"KeyA"}}

ControlHold == \E k \in HoldKeySets : control(k)

NextHold == ControlHold \/ Advance \/ HoldKeys

SpecHold == Init /\ [][NextHold]_vars /\ WF_vars(ControlHold) /\ WF_vars(Advance)

----------------------------------------------------------------------------
(* The sequencer under the roll and pitch keys: the elevons read the roll  *)
(* keys, the pitch surface and through it the ruddervators the pitch keys  *)

RollKeySets == SUBSET {"ArrowLeft", "ArrowRight", "ArrowDown", "ArrowUp"}

ControlRoll == \E k \in RollKeySets : control(k)

NextRoll == ControlRoll \/ Advance

SpecRoll == Init /\ [][NextRoll]_vars

----------------------------------------------------------------------------
(* Properties of the animation sequencer *)

\* the player that the State of surface s is handed to first
PlayerOf(s) ==
    IF s = "pitch" THEN Head(scene_order)
    ELSE CHOOSE p \in DedicatedPlayers : SurfaceOf(p) = s

PlayingForward(p, c) == players[p][c].active /\ players[p][c].speed > 0

SideClip(dir) == IF dir = "SideA" THEN "A" ELSE "B"

\* C1: on no player are the SideA clip and the SideB clip of its surface both
\* playing forward at the same time.
C1_MutualExclusion ==
    \A p \in Players : ~(PlayingForward(p, "A") /\ PlayingForward(p, "B"))

\* a surface has left SideA for SideB: its A clip has run back to the start and
\* is still on the player while SideB is requested, so the B clip is withheld
C1_Witness ==
    \E p \in Players :
        /\ phase = "control"
        /\ data[SurfaceOf(p)] = State_new("Origin", "SideB")
        /\ players[p]["A"].active
        /\ players[p]["A"].completions = 1
        /\ ~players[p]["B"].active

\* C2 (as amended): leaving SideX while its clip plays forward at seek time t
\* flips the sign of the speed and seeks to t + duration.
C2_ReverseSeeksPastEnd ==
    [][\A s \in Surfaces : \A dir \in {"SideA", "SideB"} :
          LET p == PlayerOf(s)
              c == SideClip(dir)
          IN (/\ data[s].current = dir
              /\ data'[s].current # dir
              /\ players[p][c].active
              /\ players[p][c].speed > 0
              /\ players[p][c].completions = 0)
             => /\ players'[p][c].speed = -1 * players[p][c].speed
                /\ players'[p][c].seek_time = players[p][c].seek_time + ClipDuration]_vars

\* C2 (as claimed): ... and reverse playback resumes at duration - t.
C2_ReverseSeeksMirrored ==
    [][\A s \in Surfaces : \A dir \in {"SideA", "SideB"} :
          LET p == PlayerOf(s)
              c == SideClip(dir)
          IN (/\ data[s].current = dir
              /\ data'[s].current # dir
              /\ players[p][c].active
              /\ players[p][c].speed > 0
              /\ players[p][c].completions = 0)
             => /\ players'[p][c].speed = -1 * players[p][c].speed
                /\ players'[p][c].seek_time = ClipDuration - players[p][c].seek_time]_vars

\* a clip reversed in mid-play, one time unit (0.5 s) after its start
C2_Witness ==
    \E p \in Players :
        /\ phase = "advance"
        /\ data[SurfaceOf(p)].current = "Origin"
        /\ players[p]["A"].active
        /\ players[p]["A"].speed = -1
        /\ players[p]["A"].seek_time = 1 + ClipDuration

\* C8: from current = Origin with SideX requested, the transition fires exactly
\* when the player is not playing the opposite clip; a firing transition plays
\* the clip of SideX forward and yields (SideX, SideX); a blocked one changes
\* neither the State nor the player.
C8_EnterOnlyWhenOppositeIdle ==
    [][\A s \in Surfaces : \A dir \in {"SideA", "SideB"} :
          LET p == PlayerOf(s)
              c == SideClip(dir)
              \* the player as the match sees it, after the loop head
              opposite_playing ==
                  /\ players[p][Opposite(c)].active
                  /\ \E o \in Clips : players[p][o].active /\ players[p][o].completions = 0
          IN (phase = "control" /\ data[s].current = "Origin" /\ data'[s].next = dir)
             => /\ (data'[s].current = dir) <=> ~opposite_playing
                /\ ~opposite_playing =>
                      /\ data'[s] = State_new(dir, dir)
                      /\ players'[p][c].active
                      /\ players'[p][c].speed > 0
                /\ opposite_playing =>
                      /\ data'[s] = State_new("Origin", dir)
                      /\ players'[p] = players[p]]_vars

\* a tick has just refused a request for SideB: the A clip, reversed in an
\* earlier tick, is still running back
C8_Witness ==
    \E s \in Surfaces :
        /\ phase = "advance"
        /\ data[s] = State_new("Origin", "SideB")
        /\ players[PlayerOf(s)]["A"].active
        /\ players[PlayerOf(s)]["A"].completions = 0
        /\ players[PlayerOf(s)]["A"].speed < 0
        /\ players[PlayerOf(s)]["A"].seek_time < ClipDuration
        /\ ~players[PlayerOf(s)]["B"].active

\* C9: from current = SideX with another direction requested, the transition
\* fires whatever is playing: the clip of SideX is put into reverse and the
\* State becomes (Origin, next); `current` never steps from one side to the other.
C9_LeaveAlwaysFires ==
    [][\A s \in Surfaces : \A dir \in {"SideA", "SideB"} :
          LET p == PlayerOf(s)
              c == SideClip(dir)
          IN /\ (phase = "control" /\ data[s].current = dir /\ data'[s].next # dir)
                => /\ data'[s].current = "Origin"
                   /\ players'[p][c].active
                   /\ players'[p][c].speed < 0
             /\ (data[s].current = dir /\ data'[s].current # dir)
                => data'[s].current = "Origin"]_vars

\* SideA has been left for SideB: the state is (Origin, SideB), the A clip in reverse
C9_Witness ==
    \E s \in Surfaces :
        /\ phase = "advance"
        /\ data[s] = State_new("Origin", "SideB")
        /\ players[PlayerOf(s)]["A"].active
        /\ players[PlayerOf(s)]["A"].speed < 0
        /\ players[PlayerOf(s)]["A"].seek_time >= ClipDuration

Settled == \A s \in Surfaces : data[s].current = data[s].next

\* C10: with the keyboard state held constant, every surface eventually
\* reaches current = next: a blocked transition fires on a later tick.
C10_DeferredEventuallyFires == hold ~> Settled

\* the keys are held while a request for SideB waits for the A clip to finish
C10_Witness ==
    /\ hold
    /\ \E s \in Surfaces :
          /\ data[s] = State_new("Origin", "SideB")
          /\ players[PlayerOf(s)]["A"].active
          /\ players[PlayerOf(s)]["A"].completions = 0

----------------------------------------------------------------------------
(* Properties of the follow link and the frame loop *)

\* the systems that run before update_previous_transform has run in the frame
BeforeRefresh ==
    {"change", "movement", "rotation", "follow_toggle", "follow_move",
     "update_previous_transform"}

\* C3: in every frame the PreviousTransform of the followee is refreshed exactly
\* once, after follow_move has read it and before a system of the next frame
\* runs: up to and including follow_move it is the followee's transform as it
\* was at the end of the previous frame (for a followee spawned in this frame,
\* its spawn transform), and from the refresh to the end of the frame it is the
\* followee's present transform.
C3_PreviousTransformIsLastFrameEnd ==
    aircraft.id # NoEntity =>
        IF sys \in BeforeRefresh
        THEN frame.refreshes = 0 /\ aircraft.prev = frame.start
        ELSE frame.refreshes = 1 /\ aircraft.prev = aircraft.transform

\* follow_move is about to read a PreviousTransform that an earlier frame has
\* refreshed, of a followee that has moved and turned again since
C3_Witness ==
    /\ sys = "follow_move"
    /\ Following
    /\ frame.start.translation = <<500, 0, 0>>
    /\ aircraft.prev = frame.start
    /\ aircraft.transform.translation = <<1000, 0, 0>>
    /\ aircraft.transform.rotation # aircraft.prev.rotation

\* C4: a follow_move step of a camera with a live followee adds what the
\* followee has moved since its PreviousTransform to the camera's focus and to
\* the focus of the camera's target.
C4_FollowMoveAddsDelta ==
    [][(sys = "follow_move" /\ Following) =>
          LET delta == Vec3_sub(aircraft.transform.translation,
                                aircraft.prev.translation)
          IN /\ camera'.focus = Vec3_add(camera.focus, delta)
             /\ camera'.target.focus = Vec3_add(camera.target.focus, delta)]_vars

\* follow_move has run for a followee moved from (0,0,0) to (5,0,0): the target
\* focus (2,1,0) has become (7,1,0), the current focus (0,2,0) has become (5,2,0)
C4_Witness ==
    /\ sys = "update_previous_transform"
    /\ Following
    /\ aircraft.prev.translation = Vec3_ZERO
    /\ aircraft.transform.translation = <<500, 0, 0>>
    /\ camera.target.focus = <<700, 100, 0>>
    /\ camera.focus = <<500, 200, 0>>

C7_RadiusFloor ==
    camera.radius >= RadiusFloor /\ camera.target.radius >= RadiusFloor

----------------------------------------------------------------------------
(* Properties of the pan-orbit input system *)

\* C6: a step of update_input that changes the radius leaves it at 0.05 or more,
\* whatever the scroll and whatever the radius before.
C6_ZoomKeepsFloor ==
    [][pan_orbit'.radius # pan_orbit.radius
          => pan_orbit'.radius >= RadiusFloor]_vars

\* the zoom branch has run with a scroll that takes any radius to zero or below
C6_Witness ==
    /\ mouse.scroll = 6
    /\ ~mouse.orbit_pressed
    /\ ~mouse.pan_pressed
    /\ pan_orbit.radius = RadiusFloor

----------------------------------------------------------------------------
(* Properties of the desired directions *)

OtherSide(dir) ==
    IF dir = "SideA" THEN "SideB" ELSE IF dir = "SideB" THEN "SideA" ELSE "Origin"

\* the side a single yaw key asks of both ruddervators, Origin for none or both
YawDemand(k) ==
    IF ("KeyA" \in k) = ("KeyD" \in k) THEN "Origin"
    ELSE IF "KeyA" \in k THEN "SideB" ELSE "SideA"

\* two demands on one surface: the one that asks for a side wins, equal sides
\* stand, opposite sides cancel
Mix(a, b) ==
    IF a = "Origin" THEN b
    ELSE IF b = "Origin" \/ a = b THEN a
    ELSE "Origin"

\* C11 (as amended): after every control tick the desired direction of each
\* ruddervator is the mix of pitch's demand (left: pitch's side, right: the
\* other side) and the demand of a single yaw key: with pitch at a side and
\* one yaw key pressed, the ruddervator whose pitch side is opposite to the
\* yaw side is at Origin and the other one keeps its pitch side.
C11_RuddervatorsMixPitchAndYaw ==
    phase = "advance" =>
        /\ data["left_ruddervator"].next = Mix(data["pitch"].next, YawDemand(keys))
        /\ data["right_ruddervator"].next =
               Mix(OtherSide(data["pitch"].next), YawDemand(keys))

\* C11 (as claimed): whenever pitch's desired direction is a side, the desired
\* directions of the ruddervators are pitch's side and the other side, whatever
\* the yaw keys.
C11_PitchAloneDictates ==
    (phase = "advance" /\ data["pitch"].next # "Origin") =>
        /\ data["left_ruddervator"].next = data["pitch"].next
        /\ data["right_ruddervator"].next = OtherSide(data["pitch"].next)

\* pitch asks for SideA and the left yaw key is held: the left ruddervator is
\* asked to Origin, the right one to SideB
C11_Witness ==
    /\ phase = "advance"
    /\ keys = {"ArrowDown", "KeyA"}
    /\ data["pitch"].next = "SideA"
    /\ data["left_ruddervator"].next = "Origin"
    /\ data["right_ruddervator"].next = "SideB"

\* the direction a pair of keys asks for: Origin with both or neither pressed,
\* else SideA for the first key and SideB for the second
KeyPair(k, first, second) ==
    IF (first \in k) = (second \in k) THEN "Origin"
    ELSE IF first \in k THEN "SideA" ELSE "SideB"

\* C12: after every control tick the desired direction of pitch is what the
\* pair ArrowDown/ArrowUp asks for and that of the left elevon what the pair
\* ArrowLeft/ArrowRight asks for (Origin with both or neither key pressed, else
\* the side of the one pressed key), and the right elevon is asked to the
\* other side: the elevons are both at Origin or on opposite sides.
C12_KeyPairsGiveDesiredDirection ==
    phase = "advance" =>
        /\ data["pitch"].next = KeyPair(keys, "ArrowDown", "ArrowUp")
        /\ data["left_elevon"].next = KeyPair(keys, "ArrowLeft", "ArrowRight")
        /\ data["right_elevon"].next = OtherSide(data["left_elevon"].next)

\* both pitch keys and the right roll key are held: pitch is asked to Origin,
\* the elevons to opposite sides
C12_Witness ==
    /\ phase = "advance"
    /\ keys = {"ArrowRight", "ArrowDown", "ArrowUp"}
    /\ data["pitch"].next = "Origin"
    /\ data["left_elevon"].next = "SideB"
    /\ data["right_elevon"].next = "SideA"

----------------------------------------------------------------------------
(* Properties of the camera rig *)

\* C13: within one frame the camera target is changed by at most one system.
C13_SingleWriterOfTarget == Cardinality(frame.writers) <= 1

\* C14: after a tick of update_input none of the pointer-motion and scroll events
\* of the tick is left unread, whatever the buttons and the number of cameras.
C14_NoEventLeftUnread == readers.motion = <<>> /\ readers.scroll = <<>>

\* exactly one camera entity is alive, it is the one AppCameraEntity names and
\* the one the camera systems see
ExactlyOneCamera ==
    /\ Cardinality(cameras) = 1
    /\ app_camera_entity \in cameras
    /\ camera.id = app_camera_entity

\* a scene change replaces the camera: the old one is gone, the new one has an
\* id no live camera had
RespawnReplacesCamera ==
    [][app_state' # app_state /\ app_state' # "Loading"
          => /\ app_camera_entity \notin cameras'
             /\ app_camera_entity' \notin cameras
             /\ cameras' = {app_camera_entity'}]_vars

\* C15: after any sequence of scene changes exactly one camera entity exists,
\* AppCameraEntity names it, and every respawn has despawned the previous
\* camera and spawned one new camera.
C15_OneCameraAcrossRespawns == []ExactlyOneCamera /\ RespawnReplacesCamera

\* the camera has been respawned twice: Hangar after start, InGame after Tab
C15_Witness ==
    /\ app_state = "InGame"
    /\ frame.disturbed
    /\ aircraft.id = NoEntity + 3
    /\ app_camera_entity = NoEntity + 4
    /\ cameras = {NoEntity + 4}

\* the vertical datum the setup of the current scene respawns the camera for
Datum == IF app_state = "Hangar" THEN HangarHeight ELSE config.flight_altitude

\* C16: with no preset configured, the respawn for datum height and follow
\* distance d puts the camera at (d/3, height + d/6, d*sqrt(31)/6) and its
\* focus at (0, height, 0).
C16_DefaultPoseAtDatum ==
    (config.presets = <<>> /\ app_state \in {"Hangar", "InGame"})
        => /\ camera_params.position =
                <<FollowDistance \div 3,
                  Datum + FollowDistance \div 6,
                  sqrt(31 * FollowDistance * FollowDistance) \div 6>>
           /\ camera_params.look_at = <<0, Datum, 0>>

\* C17: a preset recall puts the focus of the target on the preset's target
\* point when the camera has no followee, and on the preset's target point
\* moved by the followee's translation when it follows a live followee.
C17_RecallIsFolloweeRelative ==
    [][(sys = "preset_toggle" /\ frame'.recalled # 0)
          => LET preset == config.presets[frame'.recalled]
             IN /\ camera.follower.followee = NoEntity
                      => camera'.target.focus = preset.target
                /\ Following
                      => camera'.target.focus =
                            Vec3_add(preset.target, aircraft.transform.translation)]_vars

\* Query<Entity, With<Followee>>::iter().next()
FirstFollowee == aircraft.id

\* C18: the follow key sets the followee to None if it was Some and to the first
\* Followee entity (None if there is none) if it was None, the turn key flips
\* turn_towards, and a key that is not pressed leaves its field as it was.
C18_FollowKeysToggleTheirField ==
    [][sys = "follow_toggle"
          => LET before == camera.follower
                 after  == camera'.follower
             IN /\ "KeyF" \in keys'
                      => after.followee = IF before.followee # NoEntity
                                          THEN NoEntity ELSE FirstFollowee
                /\ "KeyF" \notin keys' => after.followee = before.followee
                /\ "KeyT" \in keys' => after.turn_towards = ~before.turn_towards
                /\ "KeyT" \notin keys'
                      => after.turn_towards = before.turn_towards]_vars

\* the follow key alone has just unlinked the aircraft in flight
C18_Witness ==
    /\ sys = "follow_move"
    /\ keys = {"KeyF"}
    /\ app_state = "InGame"
    /\ aircraft.id # NoEntity
    /\ camera.follower.followee = NoEntity
    /\ ~camera.follower.turn_towards

----------------------------------------------------------------------------
(* Properties of the thrust *)

\* C19: the target thrust lies in [0, 1] in every state, from the spawn of the
\* aircraft on.
C19_TargetInUnitRange == thrust.target >= 0 /\ thrust.target <= ThrustOne

Abs(x) == IF x < 0 THEN -x ELSE x

\* C20: a tick of update_thrust moves the current thrust toward the target by
\* change_speed * delta whatever the distance that remains, and never past it.
C20_ConstantRateRamp ==
    [][LET remaining == thrust'.target - thrust.current
           moved == thrust'.current - thrust.current
           rate == thrust.change_speed * time_delta'
       IN /\ Abs(remaining) >= rate
                => moved = IF remaining > 0 THEN rate ELSE -rate
          /\ Abs(moved) <= Abs(remaining)
          /\ moved * remaining >= 0]_vars

----------------------------------------------------------------------------
(* Properties of the pan-orbit input *)

\* the tick that ends in this step took the zoom branch of update_input
ZoomStep ==
    /\ mouse'.scroll # 0
    /\ mouse'.motion = <<0, 0>> \/ (~mouse'.orbit_pressed /\ ~mouse'.pan_pressed)

\* C21: a zoom step with accumulated scroll s on radius r leaves the radius at
\* max(r - s * r * 0.2, 0.05), the fifth rounded to the step of the radius.
C21_ZoomByFifthOfRadius ==
    [][ZoomStep
          => LET r == pan_orbit.radius
                 s == mouse'.scroll
                 fivefold == 5 * r - s * r
             IN IF fivefold <= 5 * RadiusFloor
                THEN pan_orbit'.radius = RadiusFloor
                ELSE 5 * pan_orbit'.radius - fivefold \in 0 .. 4]_vars

\* scroll -1 on radius 10 has given radius 12 (no other radius gives 12)
C21_Witness ==
    /\ mouse.scroll = -1
    /\ ~mouse.orbit_pressed
    /\ ~mouse.pan_pressed
    /\ pan_orbit.radius = 12

----------------------------------------------------------------------------
(* Properties of the animation systems around their assets *)

\* the step is a run of `control` or of control_land_gear_animation
SystemTick == phase = "control" /\ phase' = "advance"

\* C22: while the animation graph is not loaded, a tick of the surface control
\* and of the landing-gear system changes no surface State, no player and not
\* the reverse flag; with the graph loaded the same keys are acted upon.
C22_NoGraphNoChange ==
    [][SystemTick
          => /\ ~graph_loaded => UNCHANGED <<data, players, gear>>
             /\ (graph_loaded /\ keys' = {"ArrowDown"})
                   => data'.pitch.next = "SideA"
             /\ (graph_loaded /\ keys' = {"KeyG"})
                   => gear'.reverse = ~gear.reverse]_vars

\* `control` has run under ArrowDown without the graph: pitch is not asked for
C22_Witness ==
    /\ ~graph_loaded
    /\ phase = "advance"
    /\ keys = {"ArrowDown"}
    /\ data.pitch.next = "Origin"

\* C29: once the hangar scene has its player, `reverse` is true exactly when
\* the gear clip is on the player playing forward, whatever presses of G came
\* before, also those that came before the player existed.
C29_ReverseTracksDirection ==
    gear.players # <<>>
        => (gear.reverse <=> (gear.players[1].active /\ gear.players[1].speed > 0))

----------------------------------------------------------------------------
(* Properties of the follow link across scene changes *)

\* the camera names a followee that is no live Followee entity
Dangling ==
    /\ camera.follower.followee # NoEntity
    /\ camera.follower.followee # aircraft.id

\* the camera with its followee taken away
Unfollowing(cam) == [cam EXCEPT !.follower.followee = NoEntity]

\* C23: with a dangling followee follow_move leaves the camera as it is, and a
\* preset recall gives the target it gives to a camera without followee.
C23_DanglingIsNotFound ==
    [][Dangling
          => /\ sys = "follow_move" => camera' = camera
             /\ (sys = "preset_toggle" /\ frame'.recalled # 0)
                   => camera'.target =
                        preset_toggle(Unfollowing(camera), TRUE,
                                      frame'.recalled = 1, frame'.recalled = 2).target]_vars

\* a preset has been recalled in the hangar while the camera still names the
\* aircraft of the flight before
C23_Witness ==
    /\ app_state = "Hangar"
    /\ aircraft.id = NoEntity
    /\ camera.follower.followee # NoEntity
    /\ frame.recalled # 0
    /\ sys = "update_input"

\* C26: whatever scene changes have happened, the followee of the live camera
\* is None or a live Followee entity; back in the hangar it is not the
\* despawned aircraft.
C26_FolloweeLiveOrNone ==
    \/ camera.follower.followee = NoEntity
    \/ followee_query_get(camera.follower.followee)

----------------------------------------------------------------------------
(* The sequencer with one or two AnimationPlayer entities besides the      *)
(* dedicated four: the query of `control` yields every AnimationPlayer of  *)
(* the world, and each of them that is none of the four takes the pitch    *)
(* branch                                                                  *)

SceneOrders == {<<"scene_player">>, <<"scene_player", "scene_player_2">>}

InitScene ==
    /\ SurfacesAtRest
    /\ scene_order \in SceneOrders
    /\ graph_loaded = TRUE
    /\ gear = Gear_default
    /\ Startup(Config_loading)
    /\ InputAtRest

SceneKeySets == SUBSET {"ArrowDown", "ArrowUp"}

ControlScene == \E k \in SceneKeySets : control(k)

NextScene == ControlScene \/ Advance

SpecScene == InitScene /\ [][NextScene]_vars

----------------------------------------------------------------------------
(* Properties of the sequencer with several scene players *)

\* `control` has run with the graph loaded
ControlTick == phase = "control" /\ phase' = "advance" /\ graph_loaded

\* the States one call of switch_rotate_animation may leave behind
OneTransition(state) ==
    {state,
     IF state.current = "Origin" THEN State_new(state.next, state.next)
     ELSE State_new("Origin", state.next)}

\* the players of the pitch branch that a tick has given commands to
Commanded == {p \in ScenePlayers : players'[p] # StopIfFinished(players[p])}

\* C27: in a tick of `control` the pitch State makes at most one transition
\* from the State the keys ask for, and at most one player of the pitch
\* branch receives commands
C27_OneTransitionPerTick ==
    [][ControlTick
         => /\ data'["pitch"] \in OneTransition(DesiredData(data, keys')["pitch"])
            /\ Cardinality(Commanded) <= 1]_vars

----------------------------------------------------------------------------
(* Properties of the smoothing *)

\* the last step was interpolate_camera or the rotation of the aircraft
Interpolated == sys' = "interpolate_camera"

Rotated == sys' = "rotation"

FocusDistance == length_squared(Vec3_sub(camera.focus, camera.target.focus))

\* interpolate_camera has run with a frame time above zero on a fixed target
Converging ==
    /\ Interpolated
    /\ time_delta' > 0
    /\ camera'.target = camera.target

\* the exact step of some component of the focus is more than half a unit of
\* the representation
StepResolved ==
    \E i \in 1 .. 3 :
        2 * Abs(camera.target.focus[i] - camera.focus[i])
          * lerp_factor(camera_params.smoothness_speed, time_delta') > SmoothScale

----------------------------------------------------------------------------
(* Properties of the scroll input and of the application state *)

\* C28: every nonzero scroll that update_input consumes in a tick is applied
\* to the radius in that tick, whatever the buttons and the pointer motion
C28_ScrollAlwaysApplied ==
    [][mouse'.scroll # 0
         => pan_orbit'.radius = zoom(pan_orbit.radius, mouse'.scroll)]_vars

\* `change` has run in a frame in which Tab was just pressed
TabPressed == sys = "change" /\ sys' # sys /\ used' = used + 1

\* Loading holds no request but the one of the startup system
LoadingUntilStartup ==
    app_state = "Loading" => next_state \in {"Unchanged", config.state}

\* C30: a Tab press asks for InGame in Hangar, for Hangar in InGame and for
\* nothing in Loading; the state changes only Hangar -> InGame, InGame ->
\* Hangar, both after a Tab press, and Loading -> the configured state;
\* Loading is never entered again
C30_TabTogglesScenes ==
    /\ []LoadingUntilStartup
    /\ [][/\ TabPressed
               => next_state' = CASE app_state = "Hangar" -> "InGame"
                                  [] app_state = "InGame" -> "Hangar"
                                  [] OTHER -> next_state
          /\ app_state' # app_state
               => \/ app_state = "Loading" /\ app_state' = config.state
                  \/ app_state = "Hangar" /\ app_state' = "InGame" /\ used > 0
                  \/ app_state = "InGame" /\ app_state' = "Hangar" /\ used > 0
          /\ app_state' = "Loading" => app_state = "Loading"]_vars

\* the flight scene is entered from a configured Hangar, which only a Tab
\* press brings about
C30_Witness ==
    /\ config.state = "Hangar"
    /\ app_state = "InGame"
    /\ used > 0

====
